---- MODULE Spec2Model ----
(***************************************************************************)
(* Focus session timer engine of focus180: the segment sequencer           *)
(* (usePomodoroTimer), the completion ledger and durable log writes        *)
(* (PomodoroTimer.handleSegmentComplete), the local snapshot               *)
(* (handleStateChange) and the cross-device mirror (TimerDisplay,          *)
(* activeSessions.ts).                                                     *)
(*                                                                         *)
(* Time is counted in whole seconds.  `now` is the physical clock; a       *)
(* device reads now + clockOffset[d].  Segment indices are 0-based as in   *)
(* the source; segments is a sequence, so segment i is segments[i + 1].    *)
(***************************************************************************)
EXTENDS Integers, Sequences, FiniteSets, TLC

\* ---------------------------------------------------------------- bounds
\* Physical seconds explored.
MaxTime == 62
\* The user presses a control, and the device is suspended, only at clock
\* values that are multiples of ActionGrid (ticks fire every second).
ActionGrid == 20
\* Durable log writes a device may have in flight at once.
MaxPending == 2
\* Remote writes/deletes a device may have queued at once.
MaxOutbox == 2
\* Milliseconds between a client event and the server commit of the same second.
CommitDelayMs == 50

\* ------------------------------------------------------ program constants
SecondsPerMinute == 60
AnomalyFactor == 120

NoTime == -1
Devices == {1, 2}

Work(m) == [type |-> "work", minutes |-> m]
Break(m) == [type |-> "break", minutes |-> m]

VARIABLES
  segments,      \* Segment[] of the opened day (props.segments)
  now,           \* physical clock, seconds
  clockOffset,   \* per device: local clock minus physical clock
  dev,           \* per device: sequencer state, refs and component state
  logStore,      \* durable log store: sequence of written entries
  dayCompleted,  \* number of markDayCompleted calls issued
  remote,        \* the RemoteSessionRecord: {} or {record}
  pressed        \* the user has pressed a control during the current second

vars == <<segments, now, clockOffset, dev, logStore, dayCompleted, remote, pressed>>

N == Len(segments)
Indices == 0 .. (N - 1)
Seg(i) == segments[i + 1]
PlannedSeconds(i) == Seg(i).minutes * SecondsPerMinute
Clock(d) == now + clockOffset[d]

Min(a, b) == IF a < b THEN a ELSE b
Max(a, b) == IF a > b THEN a ELSE b
RemoveAt(q, k) == [j \in 1 .. (Len(q) - 1) |-> IF j < k THEN q[j] ELSE q[j + 1]]
ThisDay == "day"
OtherDay == "otherDay"

(***************************************************************************)
(* PomodoroTimer: completion ledger and durable log writes                 *)
(***************************************************************************)

\* handleWorkSegmentStart: remember when segment i was started.
handleWorkSegmentStart(s, i, t) ==
  [s EXCEPT !.segmentStartTimes[i] = t]

\* handleSegmentComplete logging the wall-clock elapsed time uncapped.
handleSegmentCompleteUncapped(s, i, t) ==
  LET segment == Seg(i)
      s0 == [s EXCEPT !.lastCompleted = @ \cup {i}]
      startTime == s.segmentStartTimes[i]
      elapsedSeconds == t - startTime
      actualSeconds == elapsedSeconds
  IN  IF segment.type # "work" THEN s0
      ELSE IF i \in s.loggedSegmentIndices THEN s0
      ELSE IF startTime = NoTime THEN s0
      ELSE IF actualSeconds < 0 \/ actualSeconds > segment.minutes * AnomalyFactor
        THEN [s0 EXCEPT !.isLoggingError = TRUE]
      ELSE [s0 EXCEPT !.pendingLogs = Append(@,
              [segmentIndex |-> i, plannedMinutes |-> segment.minutes,
               elapsedSeconds |-> elapsedSeconds, actualSeconds |-> actualSeconds,
               isLastSegment |-> (i = N - 1)])]

\* handleSegmentComplete without the validation of actualSeconds.
handleSegmentCompleteUnvalidated(s, i, t) ==
  LET segment == Seg(i)
      s0 == [s EXCEPT !.lastCompleted = @ \cup {i}]
      startTime == s.segmentStartTimes[i]
      elapsedSeconds == t - startTime
      plannedSeconds == segment.minutes * SecondsPerMinute
      actualSeconds == Min(elapsedSeconds, plannedSeconds)
  IN  IF segment.type # "work" THEN s0
      ELSE IF i \in s.loggedSegmentIndices THEN s0
      ELSE IF startTime = NoTime THEN s0
      ELSE [s0 EXCEPT !.pendingLogs = Append(@,
              [segmentIndex |-> i, plannedMinutes |-> segment.minutes,
               elapsedSeconds |-> elapsedSeconds, actualSeconds |-> actualSeconds,
               isLastSegment |-> (i = N - 1)])]

\* handleSegmentComplete up to its first await: decide whether to issue the
\* durable write for segment i at device time t.
handleSegmentComplete(s, i, t) ==
  LET segment == Seg(i)
      s0 == [s EXCEPT !.lastCompleted = @ \cup {i}]
      startTime == s.segmentStartTimes[i]
      elapsedSeconds == t - startTime
      plannedSeconds == segment.minutes * SecondsPerMinute
      actualSeconds == Min(elapsedSeconds, plannedSeconds)
  IN  IF segment.type # "work" THEN s0
      ELSE IF i \in s.loggedSegmentIndices THEN s0
      ELSE IF startTime = NoTime THEN s0
      ELSE IF actualSeconds < 0 \/ actualSeconds > segment.minutes * AnomalyFactor
        THEN [s0 EXCEPT !.isLoggingError = TRUE]
      ELSE [s0 EXCEPT !.pendingLogs = Append(@,
              [segmentIndex |-> i, plannedMinutes |-> segment.minutes,
               elapsedSeconds |-> elapsedSeconds, actualSeconds |-> actualSeconds,
               isLastSegment |-> (i = N - 1)])]

\* handleStateChange writing the snapshot also for a finished session.
handleStateChangeKeeping(s, t) ==
  [s EXCEPT !.persisted =
      {[dayId |-> ThisDay, segmentIndex |-> s.currentIndex,
        secondsRemaining |-> s.secondsRemaining,
        isRunning |-> s.isRunning, lastUpdatedAt |-> t]}]

\* handleStateChange saving every snapshot as not running.
handleStateChangeIdle(s, t) ==
  IF s.currentIndex \notin Indices THEN s
  ELSE IF s.isFinished THEN [s EXCEPT !.persisted = {}]
  ELSE [s EXCEPT !.persisted =
          {[dayId |-> ThisDay, segmentIndex |-> s.currentIndex,
            secondsRemaining |-> s.secondsRemaining,
            isRunning |-> FALSE, lastUpdatedAt |-> t]}]

\* handleStateChange: mirror the sequencer into the persisted snapshot, or
\* clear the snapshot of a finished session.  planId, dayId and date of the
\* snapshot are one field here: the day it was saved for.
handleStateChange(s, t) ==
  IF s.currentIndex \notin Indices THEN s
  ELSE IF s.isFinished THEN [s EXCEPT !.persisted = {}]
  ELSE [s EXCEPT !.persisted =
          {[dayId |-> ThisDay, segmentIndex |-> s.currentIndex,
            secondsRemaining |-> s.secondsRemaining,
            isRunning |-> s.isRunning, lastUpdatedAt |-> t]}]

(***************************************************************************)
(* usePomodoroTimer: the segment sequencer                                 *)
(***************************************************************************)

\* The interval callback: setSecondsRemaining(prev <= 1 ? 0 : prev - 1).
\* The interval callback that never lets the seconds reach 0.
tickHolding(s) ==
  [s EXCEPT !.secondsRemaining = IF @ <= 1 THEN 1 ELSE @ - 1]

tick(s) ==
  [s EXCEPT !.secondsRemaining = IF @ <= 1 THEN 0 ELSE @ - 1]

\* The completion effect leaving the next segment paused.
completionEffectPausing(s, t) ==
  IF s.isRunning /\ s.secondsRemaining = 0
  THEN LET completedIndex == s.currentIndex
           s1 == [s EXCEPT !.completedSegments = @ \cup {completedIndex}]
           s2 == handleSegmentComplete(s1, completedIndex, t)
       IN  IF s.currentIndex < N - 1
           THEN [s2 EXCEPT !.currentIndex = s.currentIndex + 1,
                           !.secondsRemaining = PlannedSeconds(s.currentIndex + 1),
                           !.isRunning = FALSE]
           ELSE [s2 EXCEPT !.isRunning = FALSE, !.isFinished = TRUE]
  ELSE s

\* The completion effect: runs when a render has isRunning and 0 seconds left.
completionEffect(s, t) ==
  IF s.isRunning /\ s.secondsRemaining = 0
  THEN LET completedIndex == s.currentIndex
           s1 == [s EXCEPT !.completedSegments = @ \cup {completedIndex}]
           s2 == handleSegmentComplete(s1, completedIndex, t)
       IN  IF s.currentIndex < N - 1
           THEN LET nextIndex == s.currentIndex + 1
                    s3 == [s2 EXCEPT !.currentIndex = nextIndex,
                                     !.secondsRemaining = PlannedSeconds(nextIndex),
                                     !.isRunning = TRUE]
                IN  IF Seg(nextIndex).type = "work"
                    THEN handleWorkSegmentStart(s3, nextIndex, t) ELSE s3
           ELSE [s2 EXCEPT !.isRunning = FALSE, !.isFinished = TRUE]
  ELSE s

start(s, t) ==
  IF s.isFinished THEN s
  ELSE LET s1 == [s EXCEPT !.isRunning = TRUE]
       IN  IF Seg(s.currentIndex).type = "work"
           THEN handleWorkSegmentStart(s1, s.currentIndex, t) ELSE s1

\* pause that also rewinds the segment.
pauseRewinding(s) ==
  [s EXCEPT !.isRunning = FALSE, !.secondsRemaining = PlannedSeconds(s.currentIndex)]

pause(s) == [s EXCEPT !.isRunning = FALSE]

\* resume without the isFinished check.
resumeUnchecked(s) == [s EXCEPT !.isRunning = TRUE]

resume(s) == IF ~s.isFinished THEN [s EXCEPT !.isRunning = TRUE] ELSE s

\* reset that leaves the timer running.
resetRunning(s) ==
  [s EXCEPT !.currentIndex = 0,
            !.secondsRemaining = IF N > 0 THEN PlannedSeconds(0) ELSE 0,
            !.isFinished = FALSE, !.completedSegments = {}]

reset(s) ==
  [s EXCEPT !.currentIndex = 0,
            !.secondsRemaining = IF N > 0 THEN PlannedSeconds(0) ELSE 0,
            !.isRunning = FALSE, !.isFinished = FALSE, !.completedSegments = {}]

\* skipSegment that starts the segment it moves to.
skipSegmentStarting(s, t) ==
  IF s.isFinished THEN s
  ELSE LET s1 == [s EXCEPT !.completedSegments = @ \cup {s.currentIndex}]
       IN  IF s.currentIndex < N - 1
           THEN [s1 EXCEPT !.currentIndex = s.currentIndex + 1,
                           !.secondsRemaining = PlannedSeconds(s.currentIndex + 1),
                           !.isRunning = TRUE]
           ELSE [s1 EXCEPT !.isRunning = FALSE, !.isFinished = TRUE]

\* skipSegment reporting the skipped segment as completed.
skipSegmentReporting(s, t) ==
  IF s.isFinished THEN s
  ELSE LET s0 == handleSegmentComplete(s, s.currentIndex, t)
           s1 == [s0 EXCEPT !.completedSegments = @ \cup {s.currentIndex}]
       IN  IF s.currentIndex < N - 1
           THEN LET nextIndex == s.currentIndex + 1
                    s2 == [s1 EXCEPT !.currentIndex = nextIndex,
                                     !.secondsRemaining = PlannedSeconds(nextIndex)]
                IN  IF s.isRunning /\ Seg(nextIndex).type = "work"
                    THEN handleWorkSegmentStart(s2, nextIndex, t) ELSE s2
           ELSE [s1 EXCEPT !.isRunning = FALSE, !.isFinished = TRUE]

skipSegment(s, t) ==
  IF s.isFinished THEN s
  ELSE LET s1 == [s EXCEPT !.completedSegments = @ \cup {s.currentIndex}]
       IN  IF s.currentIndex < N - 1
           THEN LET nextIndex == s.currentIndex + 1
                    s2 == [s1 EXCEPT !.currentIndex = nextIndex,
                                     !.secondsRemaining = PlannedSeconds(nextIndex)]
                IN  IF s.isRunning /\ Seg(nextIndex).type = "work"
                    THEN handleWorkSegmentStart(s2, nextIndex, t) ELSE s2
           ELSE [s1 EXCEPT !.isRunning = FALSE, !.isFinished = TRUE]

\* goToSegment whose range check lets the index one past the end through.
goToSegmentOffByOne(s, index) ==
  IF index < 0 \/ index > N THEN s
  ELSE [s EXCEPT !.currentIndex = index,
                 !.secondsRemaining = IF index < N THEN PlannedSeconds(index) ELSE 0,
                 !.isRunning = FALSE, !.isFinished = FALSE]

goToSegment(s, index) ==
  IF index < 0 \/ index >= N THEN s
  ELSE [s EXCEPT !.currentIndex = index, !.secondsRemaining = PlannedSeconds(index),
                 !.isRunning = FALSE, !.isFinished = FALSE]

\* The hook reports every change of its state through options.onStateChange.
onStateChange(s, t) == handleStateChange(s, t)

\* The setter the hook hands out through onExternalStateUpdate: overwrite the
\* snapshot fields with the given ones.
applyExternal(s, u) ==
  [s EXCEPT !.currentIndex = u.currentIndex, !.secondsRemaining = u.secondsRemaining,
            !.isRunning = u.isRunning, !.isFinished = u.isFinished,
            !.completedSegments = u.completedSegments]

(***************************************************************************)
(* activeSessions.ts and TimerDisplay: the cross-device mirror             *)
(***************************************************************************)

\* calculateRemainingSeconds without the floor at 0.
calculateRemainingSecondsUnfloored(sessionState, plannedSeconds, t) ==
  IF sessionState.status = "stopped" THEN plannedSeconds
  ELSE IF sessionState.status = "paused"
    THEN plannedSeconds - sessionState.accumulatedSeconds
  ELSE IF sessionState.startedAt # NoTime
    THEN plannedSeconds - (t - sessionState.startedAt)
  ELSE plannedSeconds - sessionState.accumulatedSeconds

\* calculateRemainingSeconds at device time t.
calculateRemainingSeconds(sessionState, plannedSeconds, t) ==
  IF sessionState.status = "stopped" THEN plannedSeconds
  ELSE IF sessionState.status = "paused"
    THEN Max(0, plannedSeconds - sessionState.accumulatedSeconds)
  ELSE IF sessionState.startedAt # NoTime
    THEN Max(0, plannedSeconds - (t - sessionState.startedAt))
  ELSE Max(0, plannedSeconds - sessionState.accumulatedSeconds)

\* syncToFirestore up to its await: raise the in-flight flag, stamp the local
\* write time and queue the upsert.  index is the currentIndex of the render
\* whose closure makes the call.
syncToFirestore(s, index, status, startedAt, accumulatedSeconds, t) ==
  [s EXCEPT !.isSyncingToFirestoreRef = TRUE,
            !.lastRemoteUpdateRef = t * 1000,
            !.outbox = Append(@,
               [op |-> "set", dayId |-> ThisDay, segmentIndex |-> index,
                segmentPlannedMinutes |-> Seg(index).minutes, status |-> status,
                startedAt |-> startedAt, accumulatedSeconds |-> accumulatedSeconds])]

\* clearActiveSession up to its await: queue the delete.
clearActiveSession(s) ==
  [s EXCEPT !.outbox = Append(@, [op |-> "delete"])]

\* The effect "Sync segment changes to Firestore": prev is the previous render.
syncEffect(prev, s, t) ==
  IF /\ (s.currentIndex # prev.currentIndex \/ s.isRunning # prev.isRunning)
     /\ s.currentIndex # s.lastSyncedSegmentIndexRef
     /\ ~s.isSyncingToFirestoreRef
  THEN LET s1 == [s EXCEPT !.lastSyncedSegmentIndexRef = s.currentIndex]
       IN  IF s.isRunning
           THEN syncToFirestore([s1 EXCEPT !.segmentStartTimeRef = t,
                                           !.accumulatedSecondsRef = 0],
                                s.currentIndex, "running", t, 0, t)
           ELSE syncToFirestore([s1 EXCEPT !.segmentStartTimeRef = NoTime,
                                           !.accumulatedSecondsRef = 0],
                                s.currentIndex, "paused", NoTime, 0, t)
  ELSE s

\* The effect "Clear Firestore session when timer finishes".
finishEffect(prev, s) ==
  IF s.isFinished /\ ~prev.isFinished THEN clearActiveSession(s) ELSE s

\* The renders and effects that follow a handler: prev is the state before
\* the handler, s the state it set.  A render with isRunning and 0 seconds
\* left runs the completion effect and causes a second render.
Settle(prev, s, t) ==
  LET r1 == finishEffect(prev, syncEffect(prev, s, t))
      r2 == IF r1.isRunning /\ r1.secondsRemaining = 0
            THEN LET c == completionEffect(r1, t)
                 IN  finishEffect(r1, syncEffect(r1, c, t))
            ELSE r1
      rearm == r2.isRunning # prev.isRunning \/ r2.secondsRemaining # prev.secondsRemaining
  IN  onStateChange([r2 EXCEPT !.due = IF rearm THEN FALSE ELSE @], t)

\* syncedControls
syncedStart(s, t) ==
  LET s1 == start([s EXCEPT !.segmentStartTimeRef = t, !.accumulatedSecondsRef = 0], t)
  IN  syncToFirestore(s1, s.currentIndex, "running", t, 0, t)

\* pause writing the record with the start instant left in place.
syncedPauseKeepingStart(s, t) ==
  IF s.segmentStartTimeRef # NoTime
  THEN LET elapsed == t - s.segmentStartTimeRef
           s1 == pause([s EXCEPT !.accumulatedSecondsRef = @ + elapsed,
                                 !.segmentStartTimeRef = NoTime])
       IN  syncToFirestore(s1, s.currentIndex, "paused", s.segmentStartTimeRef,
                           s1.accumulatedSecondsRef, t)
  ELSE syncToFirestore(pause(s), s.currentIndex, "paused", NoTime, s.accumulatedSecondsRef, t)

syncedPause(s, t) ==
  IF s.segmentStartTimeRef # NoTime
  THEN LET elapsed == t - s.segmentStartTimeRef
           s1 == pause([s EXCEPT !.accumulatedSecondsRef = @ + elapsed,
                                 !.segmentStartTimeRef = NoTime])
       IN  syncToFirestore(s1, s.currentIndex, "paused", NoTime, s1.accumulatedSecondsRef, t)
  ELSE syncToFirestore(pause(s), s.currentIndex, "paused", NoTime, s.accumulatedSecondsRef, t)

syncedResume(s, t) ==
  LET s1 == resume([s EXCEPT !.segmentStartTimeRef = t])
  IN  syncToFirestore(s1, s.currentIndex, "running", t, s.accumulatedSecondsRef, t)

syncedReset(s, t) ==
  LET s1 == reset([s EXCEPT !.segmentStartTimeRef = NoTime, !.accumulatedSecondsRef = 0])
  IN  clearActiveSession(syncToFirestore(s1, s.currentIndex, "stopped", NoTime, 0, t))

syncedSkipSegment(s, t) ==
  LET s1 == skipSegment([s EXCEPT !.segmentStartTimeRef = NoTime,
                                  !.accumulatedSecondsRef = 0], t)
  IN  syncToFirestore(s1, s.currentIndex, "paused", NoTime, 0, t)

\* The subscription callback for a pushed record r at device time t.
\* The callback's guards without the comparison of write times.
DiscardsUnordered(s, r) ==
  \/ r.dayId # ThisDay
  \/ s.isSyncingToFirestoreRef

Discards(s, r) ==
  \/ r.dayId # ThisDay
  \/ r.lastUpdatedAt <= s.lastRemoteUpdateRef
  \/ s.isSyncingToFirestoreRef

onRemoteState(s, r, t) ==
  IF Discards(s, r) THEN s
  ELSE LET plannedSeconds == r.segmentPlannedMinutes * SecondsPerMinute
           remainingSeconds == calculateRemainingSeconds(r, plannedSeconds, t)
           s1 == applyExternal(s,
                   [currentIndex |-> r.segmentIndex, secondsRemaining |-> remainingSeconds,
                    isRunning |-> (r.status = "running"), isFinished |-> FALSE,
                    completedSegments |-> {}])
       IN  [s1 EXCEPT !.segmentStartTimeRef =
                         IF r.status = "running" /\ r.startedAt # NoTime
                         THEN r.startedAt ELSE NoTime,
                      !.accumulatedSecondsRef = r.accumulatedSeconds]

(***************************************************************************)
(* PomodoroTimer: the persisted snapshot and the resume flow               *)
(***************************************************************************)

\* calculateEffectiveSecondsRemaining at device time t: a running snapshot
\* loses the time passed since it was written, a paused one keeps its value.
calculateEffectiveSecondsRemaining(p, t) ==
  IF p.isRunning THEN Max(0, p.secondsRemaining - (t - p.lastUpdatedAt))
  ELSE p.secondsRemaining

\* TimerDisplay mounts with initialTimerOptions: the sequencer starts from
\* them, and the subscription pushes the remote record if there is one.
hydrate(s, index, seconds, running) ==
  [s EXCEPT !.currentIndex = index, !.secondsRemaining = seconds,
            !.isRunning = running, !.isFinished = FALSE, !.completedSegments = {},
            !.lastSyncedSegmentIndexRef = index,
            !.delivered = (remote = {})]

\* Fresh start: segment 0, full duration, not running.
startFresh(s) ==
  hydrate([s EXCEPT !.resumeDecision = "none"], 0,
          IF N > 0 THEN PlannedSeconds(0) ELSE 0, FALSE)

\* The mount effect "Check for persisted state on mount" at device time t.
mountEffect(s, t) ==
  IF s.persisted = {} THEN startFresh(s)
  ELSE LET persisted == CHOOSE p \in s.persisted : TRUE
           effectiveSeconds == calculateEffectiveSecondsRemaining(persisted, t)
       IN  IF persisted.dayId # ThisDay
           THEN startFresh([s EXCEPT !.persisted = {}])
           ELSE IF persisted.segmentIndex >= N
           THEN startFresh([s EXCEPT !.persisted = {}])
           ELSE IF effectiveSeconds <= 0
           THEN [s EXCEPT !.persistedState = {[persisted EXCEPT !.secondsRemaining = 0]},
                          !.resumeDecision = "pending"]
           ELSE [s EXCEPT !.persistedState = {persisted},
                          !.resumeDecision = "pending"]

\* handleResume hydrating at the stored value instead of the effective one.
handleResumeStored(s, t) ==
  IF s.persistedState = {} THEN s
  ELSE LET p == CHOOSE x \in s.persistedState : TRUE
       IN  hydrate([s EXCEPT !.resumeDecision = "resume"],
                   p.segmentIndex, p.secondsRemaining, FALSE)

handleResume(s, t) ==
  IF s.persistedState = {} THEN s
  ELSE LET p == CHOOSE x \in s.persistedState : TRUE
           effectiveSeconds == calculateEffectiveSecondsRemaining(p, t)
       IN  hydrate([s EXCEPT !.resumeDecision = "resume"],
                   p.segmentIndex, effectiveSeconds, FALSE)

handleRestart(s) ==
  hydrate([s EXCEPT !.persisted = {}, !.persistedState = {},
                    !.resumeDecision = "restart"],
          0, IF N > 0 THEN PlannedSeconds(0) ELSE 0, FALSE)

(***************************************************************************)
(* State machine                                                           *)
(***************************************************************************)

\* buildPomodoroSegmentsForDay
MAX_SEGMENT_MIN == 25
BREAK_MIN == 5

\* Math.ceil(a / b) for positive integers.
Ceil(a, b) == (a + b - 1) \div b

\* buildPomodoroSegmentsForDay giving every work segment the base length.
buildPomodoroSegmentsForDayEven(totalMinutes) ==
  IF totalMinutes < 20 THEN <<Work(totalMinutes)>>
  ELSE LET n == Max(1, Ceil(totalMinutes, MAX_SEGMENT_MIN))
           base == totalMinutes \div n
       IN  [k \in 1 .. (2 * n - 1) |->
              IF k % 2 = 1 THEN Work(base) ELSE Break(BREAK_MIN)]

\* buildPomodoroSegmentsForDay with a break after the last work segment too.
buildPomodoroSegmentsForDayTrailingBreak(totalMinutes) ==
  IF totalMinutes < 20 THEN <<Work(totalMinutes)>>
  ELSE LET n == Max(1, Ceil(totalMinutes, MAX_SEGMENT_MIN))
           base == totalMinutes \div n
           remainder == totalMinutes % n
       IN  [k \in 1 .. (2 * n) |->
              IF k % 2 = 1
              THEN Work(IF (k - 1) \div 2 < remainder THEN base + 1 ELSE base)
              ELSE Break(BREAK_MIN)]

\* Segment 2i+1 of the result is work segment i, segment 2i+2 the break
\* that follows it; the last work segment has no break after it.
buildPomodoroSegmentsForDay(totalMinutes) ==
  IF totalMinutes < 20 THEN <<Work(totalMinutes)>>
  ELSE LET n == Max(1, Ceil(totalMinutes, MAX_SEGMENT_MIN))
           base == totalMinutes \div n
           remainder == totalMinutes % n
           workSegmentMinutes == [i \in 0 .. (n - 1) |->
                                    IF i < remainder THEN base + 1 ELSE base]
       IN  [k \in 1 .. (2 * n - 1) |->
              IF k % 2 = 1 THEN Work(workSegmentMinutes[(k - 1) \div 2])
              ELSE Break(BREAK_MIN)]

ShortDay == <<Work(1)>>
LongDay == <<Work(1), Break(1), Work(1)>>
SegmentLists == {ShortDay, LongDay}

\* The durable log store when the day is opened: empty, or already holding
\* the entry of segment 0 written by an earlier session.
EarlierEntry(segs) ==
  [segmentIndex |-> 0, plannedMinutes |-> segs[1].minutes,
   actualSeconds |-> segs[1].minutes * SecondsPerMinute]

\* A freshly mounted PomodoroTimer/TimerDisplay with no persisted snapshot,
\* once subscribeToActiveSession has registered its listener.
InitDevice(segs) ==
  [currentIndex |-> 0,
   secondsRemaining |-> IF Len(segs) > 0 THEN segs[1].minutes * SecondsPerMinute ELSE 0,
   isRunning |-> FALSE, isFinished |-> FALSE, completedSegments |-> {},
   due |-> FALSE, lastCompleted |-> {},
   segmentStartTimes |-> [i \in 0 .. (Len(segs) - 1) |-> NoTime],
   loggedSegmentIndices |-> {}, seedPending |-> TRUE,
   isLoggingError |-> FALSE, pendingLogs |-> <<>>, persisted |-> {},
   segmentStartTimeRef |-> NoTime, accumulatedSecondsRef |-> 0,
   isSyncingToFirestoreRef |-> FALSE, lastRemoteUpdateRef |-> 0,
   lastSyncedSegmentIndexRef |-> 0,
   outbox |-> <<>>, flagTimers |-> 0, delivered |-> TRUE, open |-> TRUE,
   resumeDecision |-> "none", persistedState |-> {},
   completePlanCalls |-> 0, dayCompletionError |-> FALSE,
   listener |-> "active",
   isDayComplete |-> FALSE, dayCheckPending |-> FALSE]

\* The day view is open on the devices in opened; the others stay closed.
\* lists are the days that may be opened, earlier tells whether the store
\* may already hold an entry.
InitWith(opened, lists, earlier) ==
  /\ segments \in lists
  /\ now = 0
  /\ clockOffset = [d \in Devices |-> 0]
  /\ dev = [d \in Devices |-> [InitDevice(segments) EXCEPT
                                  !.open = (d \in opened),
                                  !.listener = IF d \in opened THEN "active" ELSE "none",
                                  !.seedPending = (d \in opened)]]
  /\ logStore \in {<<>>} \cup (IF earlier THEN {<<EarlierEntry(segments)>>} ELSE {})
  /\ dayCompleted = 0
  /\ remote = {}
  /\ pressed = FALSE

Init == InitWith({1}, SegmentLists, FALSE)

Begin(s) == [s EXCEPT !.lastCompleted = {}]

\* The listener that subscribeToActiveSession registers is in place.
Listening(s) == s.listener = "active"

\* The model explores a handler only while its queues stay within bounds.
Fits(s) == Len(s.pendingLogs) <= MaxPending /\ Len(s.outbox) <= MaxOutbox

Commit(d, s) ==
  /\ Fits(s)
  /\ dev' = [dev EXCEPT ![d] = s]

UserActs == now % ActionGrid = 0 /\ ~pressed

\* The timer is on screen: the Resume/Restart dialog is not.
Shown(d) == dev[d].resumeDecision # "pending"

\* The Start button is shown instead of Resume on an untouched first segment.
ShowsStart(s) == s.currentIndex = 0 /\ s.secondsRemaining = PlannedSeconds(0)

Start(d) ==
  /\ UserActs /\ Shown(d)
  /\ ~dev[d].isFinished /\ ~dev[d].isRunning /\ ShowsStart(dev[d])
  /\ Commit(d, Settle(dev[d], syncedStart(Begin(dev[d]), Clock(d)), Clock(d)))
  /\ pressed' = TRUE
  /\ UNCHANGED <<segments, now, clockOffset, logStore, dayCompleted, remote>>

Resume(d) ==
  /\ UserActs /\ Shown(d)
  /\ ~dev[d].isFinished /\ ~dev[d].isRunning /\ ~ShowsStart(dev[d])
  /\ Commit(d, Settle(dev[d], syncedResume(Begin(dev[d]), Clock(d)), Clock(d)))
  /\ pressed' = TRUE
  /\ UNCHANGED <<segments, now, clockOffset, logStore, dayCompleted, remote>>

Pause(d) ==
  /\ UserActs /\ Shown(d)
  /\ ~dev[d].isFinished /\ dev[d].isRunning
  /\ Commit(d, Settle(dev[d], syncedPause(Begin(dev[d]), Clock(d)), Clock(d)))
  /\ pressed' = TRUE
  /\ UNCHANGED <<segments, now, clockOffset, logStore, dayCompleted, remote>>

Skip(d) ==
  /\ UserActs /\ Shown(d)
  /\ ~dev[d].isFinished
  /\ Commit(d, Settle(dev[d], syncedSkipSegment(Begin(dev[d]), Clock(d)), Clock(d)))
  /\ pressed' = TRUE
  /\ UNCHANGED <<segments, now, clockOffset, logStore, dayCompleted, remote>>

Reset(d) ==
  /\ UserActs /\ Shown(d)
  /\ Commit(d, Settle(dev[d], syncedReset(Begin(dev[d]), Clock(d)), Clock(d)))
  /\ pressed' = TRUE
  /\ UNCHANGED <<segments, now, clockOffset, logStore, dayCompleted, remote>>

\* Remote writes, their flag timeouts and the pushes they cause take well
\* under a second: none is outstanding when the clock reaches the next second.
NetworkQuiet ==
  \A d \in Devices :
     dev[d].outbox = <<>> /\ dev[d].flagTimers = 0 /\ dev[d].delivered

\* The initial read of the day's log entries has returned.
SeedQuiet == \A d \in Devices : ~dev[d].seedPending

\* No durable log write is in flight.
LogQuiet == \A d \in Devices : dev[d].pendingLogs = <<>>

\* The 1-second interval fires.
Tick(d) ==
  /\ dev[d].isRunning /\ dev[d].secondsRemaining > 0 /\ dev[d].due
  /\ Commit(d, Settle(dev[d], tick(Begin(dev[d])), Clock(d)))
  /\ UNCHANGED <<segments, now, clockOffset, logStore, dayCompleted, remote, pressed>>

\* One second passes; every armed interval that was due has fired.  limit
\* bounds the clock, quiet is what must have settled within the second.
ClockSecond(limit, quiet) ==
  /\ now < limit
  /\ quiet
  /\ \A d \in Devices : ~(dev[d].isRunning /\ dev[d].secondsRemaining > 0 /\ dev[d].due)
  /\ now' = now + 1
  /\ pressed' = FALSE
  /\ dev' = [d \in Devices |-> [dev[d] EXCEPT !.due = TRUE]]
  /\ UNCHANGED <<segments, clockOffset, logStore, dayCompleted, remote>>

\* The devices are suspended (or their timers throttled) for ActionGrid
\* seconds: the clock moves on and no interval fires meanwhile.
Suspend(limit, quiet) ==
  /\ now % ActionGrid = 0
  /\ quiet
  /\ now + ActionGrid <= limit
  /\ now' = now + ActionGrid
  /\ pressed' = FALSE
  /\ dev' = [d \in Devices |-> [dev[d] EXCEPT !.due = TRUE]]
  /\ UNCHANGED <<segments, clockOffset, logStore, dayCompleted, remote>>

\* loadInitialData: the read of the day's log entries returns (or fails and
\* yields []), and the ledger is set to what it returned.
LoadInitialData(d, ok) ==
  /\ dev[d].seedPending
  /\ Commit(d, [Begin(dev[d]) EXCEPT
       !.seedPending = FALSE,
       !.loggedSegmentIndices =
          IF ok THEN {logStore[k].segmentIndex : k \in 1 .. Len(logStore)} ELSE {}])
  /\ UNCHANGED <<segments, now, clockOffset, logStore, dayCompleted, remote, pressed>>

\* handleSegmentComplete after the await, with a day-completion failure
\* reported to the user as a logging error.
LogWrittenSurfacing(d, k, dayOk, lastDay, planOk) ==
  /\ k \in 1 .. Len(dev[d].pendingLogs)
  /\ LET w == dev[d].pendingLogs[k]
         attempted == w.isLastSegment /\ dayOk /\ lastDay
         failed == w.isLastSegment /\ (~dayOk \/ (lastDay /\ ~planOk))
     IN  /\ logStore' = Append(logStore,
                [segmentIndex |-> w.segmentIndex, plannedMinutes |-> w.plannedMinutes,
                 actualSeconds |-> w.actualSeconds])
         /\ Commit(d, [Begin(dev[d]) EXCEPT
               !.pendingLogs = RemoveAt(@, k),
               !.loggedSegmentIndices = @ \cup {w.segmentIndex},
               !.segmentStartTimes[w.segmentIndex] = NoTime,
               !.isLoggingError = failed,
               !.completePlanCalls = IF attempted THEN @ + 1 ELSE @,
               !.dayCompletionError = IF failed THEN TRUE ELSE @])
         /\ dayCompleted' = IF w.isLastSegment THEN dayCompleted + 1 ELSE dayCompleted
  /\ UNCHANGED <<segments, now, clockOffset, remote, pressed>>

\* handleSegmentComplete after the await: the durable write k succeeded.
\* For the day's last segment markDayCompleted follows (dayOk: it did not
\* throw), then isLastTrainingDay (lastDay: what it returned) and, if that
\* is true, completePlan (planOk: it did not throw); a throw is caught and
\* logged.
LogWritten(d, k, dayOk, lastDay, planOk) ==
  /\ k \in 1 .. Len(dev[d].pendingLogs)
  /\ LET w == dev[d].pendingLogs[k]
         attempted == w.isLastSegment /\ dayOk /\ lastDay
         failed == w.isLastSegment /\ (~dayOk \/ (lastDay /\ ~planOk))
     IN  /\ logStore' = Append(logStore,
                [segmentIndex |-> w.segmentIndex, plannedMinutes |-> w.plannedMinutes,
                 actualSeconds |-> w.actualSeconds])
         /\ Commit(d, [Begin(dev[d]) EXCEPT
               !.pendingLogs = RemoveAt(@, k),
               !.loggedSegmentIndices = @ \cup {w.segmentIndex},
               !.segmentStartTimes[w.segmentIndex] = NoTime,
               !.isLoggingError = FALSE,
               !.completePlanCalls = IF attempted THEN @ + 1 ELSE @,
               !.dayCompletionError = IF failed THEN TRUE ELSE @])
         /\ dayCompleted' = IF w.isLastSegment THEN dayCompleted + 1 ELSE dayCompleted
  /\ UNCHANGED <<segments, now, clockOffset, remote, pressed>>

\* The durable write k succeeded, whatever the secondary effects did.
LogWriteOk(d, k) ==
  \E dayOk, lastDay, planOk \in BOOLEAN : LogWritten(d, k, dayOk, lastDay, planOk)

\* The catch block marking the segment as logged all the same.
LogWriteFailMarking(d, k) ==
  /\ k \in 1 .. Len(dev[d].pendingLogs)
  /\ Commit(d, [Begin(dev[d]) EXCEPT
        !.pendingLogs = RemoveAt(@, k),
        !.loggedSegmentIndices = @ \cup {dev[d].pendingLogs[k].segmentIndex},
        !.isLoggingError = TRUE])
  /\ UNCHANGED <<segments, now, clockOffset, logStore, dayCompleted, remote, pressed>>

\* handleSegmentComplete after the await: the durable write k threw.
LogWriteFail(d, k) ==
  /\ k \in 1 .. Len(dev[d].pendingLogs)
  /\ Commit(d, [Begin(dev[d]) EXCEPT !.pendingLogs = RemoveAt(@, k),
                                     !.isLoggingError = TRUE])
  /\ UNCHANGED <<segments, now, clockOffset, logStore, dayCompleted, remote, pressed>>

\* The server commits the oldest queued remote operation of device d.
RemoteCommit(d) ==
  /\ dev[d].outbox # <<>>
  /\ LET o == Head(dev[d].outbox)
     IN  /\ remote' = IF o.op = "delete" THEN {}
                      ELSE {[dayId |-> o.dayId, segmentIndex |-> o.segmentIndex,
                             segmentPlannedMinutes |-> o.segmentPlannedMinutes,
                             status |-> o.status, startedAt |-> o.startedAt,
                             accumulatedSeconds |-> o.accumulatedSeconds,
                             lastUpdatedAt |-> now * 1000 + CommitDelayMs,
                             deviceId |-> d]}
         /\ dev' = [e \in Devices |->
              IF e = d
              THEN [Begin(dev[d]) EXCEPT !.outbox = Tail(@),
                      !.delivered = ~Listening(dev[d]),
                      !.flagTimers = IF o.op = "set" THEN @ + 1 ELSE @]
              ELSE [dev[e] EXCEPT !.delivered = ~Listening(dev[e])]]
  /\ UNCHANGED <<segments, now, clockOffset, logStore, dayCompleted, pressed>>

\* The 100 ms timeout set in syncToFirestore's finally block fires.
FlagTimer(d) ==
  /\ dev[d].flagTimers > 0
  /\ Commit(d, [Begin(dev[d]) EXCEPT !.flagTimers = @ - 1,
                                     !.isSyncingToFirestoreRef = FALSE])
  /\ UNCHANGED <<segments, now, clockOffset, logStore, dayCompleted, remote, pressed>>

\* The push subscription delivers the current remote document to device d.
\* On a device whose view is closed the callback runs against an unmounted
\* component, which drops the update.
OnSnapshot(d) ==
  /\ ~dev[d].delivered
  /\ LET s == [Begin(dev[d]) EXCEPT !.delivered = TRUE]
     IN  IF ~dev[d].open THEN Commit(d, [dev[d] EXCEPT !.delivered = TRUE])
         ELSE IF remote = {} THEN Commit(d, s)
         ELSE LET r == CHOOSE x \in remote : TRUE
              IN  IF Discards(s, r) THEN Commit(d, s)
                  ELSE Commit(d, Settle(dev[d], onRemoteState(s, r, Clock(d)), Clock(d)))
  /\ UNCHANGED <<segments, now, clockOffset, logStore, dayCompleted, remote, pressed>>

\* A failed remote operation that shows the error banner.
RemoteFailSurfacing(d) ==
  /\ dev[d].outbox # <<>>
  /\ Commit(d, [Begin(dev[d]) EXCEPT
        !.outbox = Tail(@),
        !.isLoggingError = TRUE,
        !.flagTimers = IF Head(dev[d].outbox).op = "set" THEN @ + 1 ELSE @])
  /\ UNCHANGED <<segments, now, clockOffset, logStore, dayCompleted, remote, pressed>>

\* syncSessionStateToFirestore or clearActiveSession fails for the oldest
\* queued operation of device d: the error is caught and logged, the store
\* is untouched, and syncToFirestore's finally block still sets its timeout.
RemoteFail(d) ==
  /\ dev[d].outbox # <<>>
  /\ Commit(d, [Begin(dev[d]) EXCEPT
        !.outbox = Tail(@),
        !.flagTimers = IF Head(dev[d].outbox).op = "set" THEN @ + 1 ELSE @])
  /\ UNCHANGED <<segments, now, clockOffset, logStore, dayCompleted, remote, pressed>>

\* subscribeToActiveSession's asynchronous setup completes: onSnapshot
\* registers the listener, which calls back at once with the current
\* document or with null.
ListenerReady(d) ==
  /\ dev[d].listener = "pending"
  /\ dev' = [dev EXCEPT ![d].listener = "active", ![d].delivered = FALSE]
  /\ UNCHANGED <<segments, now, clockOffset, logStore, dayCompleted, remote, pressed>>

\* The setup fails: the catch calls callback(null), which returns at once.
ListenerFail(d) ==
  /\ dev[d].listener = "pending"
  /\ dev' = [dev EXCEPT ![d].listener = "none"]
  /\ UNCHANGED <<segments, now, clockOffset, logStore, dayCompleted, remote, pressed>>

\* The day's view is closed on device d: the component state and the tick
\* timer go, the effect cleanup calls the function subscribeToActiveSession
\* returned, which removes the listener if one is registered by then;
\* writes in flight and their timeouts are left alone.
Close(d) ==
  /\ UserActs /\ dev[d].open
  /\ Commit(d, [InitDevice(segments) EXCEPT
        !.open = FALSE, !.seedPending = FALSE,
        !.persisted = dev[d].persisted,
        !.outbox = dev[d].outbox, !.flagTimers = dev[d].flagTimers,
        !.isSyncingToFirestoreRef = dev[d].isSyncingToFirestoreRef,
        !.listener = IF Listening(dev[d]) THEN "none" ELSE dev[d].listener])
  /\ pressed' = TRUE
  /\ UNCHANGED <<segments, now, clockOffset, logStore, dayCompleted, remote>>

\* The wall clock of device d is set back by ClockStep seconds (a clock
\* correction, a change of the system time), once.
ClockStep == 200
ClockSetBack(d) ==
  /\ now % ActionGrid = 0
  /\ clockOffset[d] = 0
  /\ clockOffset' = [clockOffset EXCEPT ![d] = @ - ClockStep]
  /\ UNCHANGED <<segments, now, dev, logStore, dayCompleted, remote, pressed>>

\* The day's view is opened on device d, where it was closed: the mount
\* effect reads the snapshot the device's storage holds.
Open(d) ==
  /\ UserActs /\ ~dev[d].open
  /\ Commit(d, mountEffect([InitDevice(segments) EXCEPT
                              !.persisted = dev[d].persisted,
                              !.dayCheckPending = TRUE], Clock(d)))
  /\ pressed' = TRUE
  /\ UNCHANGED <<segments, now, clockOffset, logStore, dayCompleted, remote>>

\* The page is reloaded: component state and refs start over, the persisted
\* snapshot survives, and the mount effect decides what to show.
Reload(d) ==
  /\ UserActs /\ dev[d].open
  /\ NetworkQuiet /\ LogQuiet /\ SeedQuiet
  /\ Commit(d, mountEffect([InitDevice(segments) EXCEPT
                              !.persisted = dev[d].persisted, !.due = dev[d].due,
                              !.dayCheckPending = TRUE],
                           Clock(d)))
  /\ pressed' = TRUE
  /\ UNCHANGED <<segments, now, clockOffset, logStore, dayCompleted, remote>>

\* The user chooses Resume in the dialog.
\* What PomodoroTimer renders: the Resume/Restart dialog, the
\* 'Loading timer...' placeholder (no initialTimerOptions yet) or the timer.
Screen(s) ==
  IF ~s.isDayComplete /\ s.resumeDecision = "pending" /\ s.persistedState # {}
  THEN "dialog"
  ELSE IF s.resumeDecision = "pending" THEN "loading"
  ELSE "timer"

\* The seconds of work in the day's log entries.
RECURSIVE ActualWorkSeconds(_)
ActualWorkSeconds(store) ==
  IF store = <<>> THEN 0
  ELSE Head(store).actualSeconds + ActualWorkSeconds(Tail(store))

\* The sum of the minutes of the work segments of a segment list: the
\* day's dailyTargetMinutes.
RECURSIVE WorkMinutes(_)
WorkMinutes(segs) ==
  IF segs = <<>> THEN 0
  ELSE (IF Head(segs).type = "work" THEN Head(segs).minutes ELSE 0)
       + WorkMinutes(Tail(segs))

\* buildDailySummary(...).completionRatio >= 1.0, the minutes rounded to
\* the nearest integer.
DayComplete(store) ==
  (2 * ActualWorkSeconds(store) + SecondsPerMinute) \div (2 * SecondsPerMinute)
    >= WorkMinutes(segments)

\* The already-complete check started by the mount effect returns: the
\* read of the day's log entries succeeded (ok) or threw.
DayCheckDone(d, ok) ==
  /\ dev[d].open /\ dev[d].dayCheckPending
  /\ LET complete == ok /\ DayComplete(logStore)
     IN  dev' = [dev EXCEPT ![d].dayCheckPending = FALSE,
                            ![d].isDayComplete = complete,
                            ![d].persisted = IF complete THEN {} ELSE @]
  /\ UNCHANGED <<segments, now, clockOffset, logStore, dayCompleted, remote, pressed>>

HandleResume(d) ==
  /\ UserActs /\ Screen(dev[d]) = "dialog"
  /\ Commit(d, handleResume(dev[d], Clock(d)))
  /\ pressed' = TRUE
  /\ UNCHANGED <<segments, now, clockOffset, logStore, dayCompleted, remote>>

\* The user chooses Restart in the dialog.
HandleRestart(d) ==
  /\ UserActs /\ Screen(dev[d]) = "dialog"
  /\ Commit(d, handleRestart(dev[d]))
  /\ pressed' = TRUE
  /\ UNCHANGED <<segments, now, clockOffset, logStore, dayCompleted, remote>>

\* Another device of the same user, not modelled in detail, writes the
\* remote record: what its control actions and index changes can write.
PeerClockSkew == 5
PeerAccumulated == {0, 20, 60}
PeerRecords ==
  {[dayId |-> ThisDay, segmentIndex |-> i, segmentPlannedMinutes |-> Seg(i).minutes,
    status |-> "running", startedAt |-> now + k, accumulatedSeconds |-> 0,
    lastUpdatedAt |-> now * 1000 + CommitDelayMs, deviceId |-> 0]
     : i \in Indices, k \in {0, PeerClockSkew, 0 - PeerClockSkew}}
  \cup
  {[dayId |-> ThisDay, segmentIndex |-> i, segmentPlannedMinutes |-> Seg(i).minutes,
    status |-> "paused", startedAt |-> NoTime, accumulatedSeconds |-> a,
    lastUpdatedAt |-> now * 1000 + CommitDelayMs, deviceId |-> 0]
     : i \in Indices, a \in PeerAccumulated}
  \cup
  {[dayId |-> OtherDay, segmentIndex |-> 0, segmentPlannedMinutes |-> 1,
    status |-> "paused", startedAt |-> NoTime, accumulatedSeconds |-> 0,
    lastUpdatedAt |-> now * 1000 + CommitDelayMs, deviceId |-> 0]}

PeerWrite(r) ==
  /\ UserActs
  /\ remote' = {r}
  /\ dev' = [d \in Devices |-> [dev[d] EXCEPT !.delivered = ~Listening(dev[d])]]
  /\ pressed' = TRUE
  /\ UNCHANGED <<segments, now, clockOffset, logStore, dayCompleted>>

\* One device with every control, and a peer; remote operations, log writes
\* and the initial read all settle within the second they were issued in.
Next ==
  \/ Start(1) \/ Resume(1) \/ Pause(1) \/ Skip(1) \/ Reset(1)
  \/ Tick(1)
  \/ ClockSecond(MaxTime, NetworkQuiet /\ SeedQuiet /\ LogQuiet)
  \/ Suspend(MaxTime, NetworkQuiet /\ SeedQuiet /\ LogQuiet)
  \/ \E ok \in BOOLEAN : LoadInitialData(1, ok)
  \/ \E k \in 1 .. MaxPending : LogWriteOk(1, k)
  \/ \E k \in 1 .. MaxPending : LogWriteFail(1, k)
  \/ RemoteCommit(1) \/ FlagTimer(1) \/ OnSnapshot(1)
  \/ \E r \in PeerRecords : PeerWrite(r)

Spec == Init /\ [][Next]_vars

\* One device; durable log writes may stay in flight for any time.
MaxTimeLog == 142
InitLog == InitWith({1}, SegmentLists, FALSE)
NextLog ==
  \/ Start(1) \/ Resume(1) \/ Pause(1) \/ Reset(1)
  \/ Tick(1)
  \/ ClockSecond(MaxTimeLog, NetworkQuiet /\ SeedQuiet)
  \/ Suspend(MaxTimeLog, NetworkQuiet /\ SeedQuiet)
  \/ \E ok \in BOOLEAN : LoadInitialData(1, ok)
  \/ \E k \in 1 .. MaxPending : LogWriteOk(1, k)
  \/ \E k \in 1 .. MaxPending : LogWriteFail(1, k)
  \/ RemoteCommit(1) \/ FlagTimer(1) \/ OnSnapshot(1)

SpecLog == InitLog /\ [][NextLog]_vars

\* One device opening a day whose store may already hold an entry; the
\* initial read returns, or fails, within the second, and the log writes
\* may take any time.
InitOpen == InitWith({1}, SegmentLists, TRUE)
NextOpen ==
  \/ Start(1) \/ Resume(1) \/ Pause(1) \/ Reset(1)
  \/ Tick(1)
  \/ ClockSecond(MaxTime, NetworkQuiet /\ SeedQuiet)
  \/ \E ok \in BOOLEAN : LoadInitialData(1, ok)
  \/ \E k \in 1 .. MaxPending : LogWriteOk(1, k)
  \/ \E k \in 1 .. MaxPending : LogWriteFail(1, k)
  \/ RemoteCommit(1) \/ FlagTimer(1) \/ OnSnapshot(1)

SpecOpen == InitOpen /\ [][NextOpen]_vars

\* Two devices open on the same user, plan and day.
MaxTimeTwo == 102
InitTwo == InitWith({1, 2}, {ShortDay}, FALSE)
NextTwo ==
  \/ \E d \in Devices : Start(d) \/ Reset(d) \/ Tick(d)
  \/ ClockSecond(MaxTimeTwo, NetworkQuiet /\ SeedQuiet /\ LogQuiet)
  \/ \E d \in Devices : LoadInitialData(d, TRUE)
  \/ \E d \in Devices : \E k \in 1 .. MaxPending : LogWriteOk(d, k)
  \/ \E d \in Devices : RemoteCommit(d) \/ FlagTimer(d) \/ OnSnapshot(d)

SpecTwo == InitTwo /\ [][NextTwo]_vars

\* The user starts segment 0 and lets every segment run out.
MaxTimeRun == 182
InitRun == InitWith({1}, SegmentLists, FALSE)
NextRun ==
  \/ Start(1) \/ Tick(1)
  \/ ClockSecond(MaxTimeRun, NetworkQuiet /\ SeedQuiet)
  \/ LoadInitialData(1, TRUE)
  \/ \E k \in 1 .. MaxPending : LogWriteOk(1, k)
  \/ RemoteCommit(1) \/ FlagTimer(1) \/ OnSnapshot(1)

SpecRun == InitRun /\ [][NextRun]_vars

\* Timers fire and the network answers: the run does not stop by itself.
SpecRunLive == SpecRun /\ WF_vars(NextRun)

\* Every interval that is due has fired.
TicksDone ==
  \A d \in Devices : ~(dev[d].isRunning /\ dev[d].secondsRemaining > 0 /\ dev[d].due)

\* Device 1 is driven by the user within one segment; device 2 is open on
\* the same day and only follows.  No device is suspended, and the user
\* presses a control only after the tick of the second has fired.
InitMirror == InitWith({1, 2}, {ShortDay}, FALSE)
NextMirror ==
  \/ TicksDone /\ Start(1)
  \/ TicksDone /\ Pause(1)
  \/ TicksDone /\ Resume(1)
  \/ \E d \in Devices : Tick(d)
  \/ ClockSecond(MaxTime, NetworkQuiet /\ SeedQuiet /\ LogQuiet)
  \/ \E d \in Devices : LoadInitialData(d, TRUE)
  \/ \E d \in Devices : \E k \in 1 .. MaxPending : LogWriteOk(d, k)
  \/ \E d \in Devices : RemoteCommit(d) \/ FlagTimer(d) \/ OnSnapshot(d)

SpecMirror == InitMirror /\ [][NextMirror]_vars

\* calculateRemainingSeconds on its own: a record and a clock value drawn
\* from bounded sets, and the subscription callback's computation applied.
CalcStartedAt == {NoTime, 0, 30}
CalcAccumulated == {0, 20, 60, 90}
CalcTimes == {0, 20, 60, 100}
CalcRecords ==
  {[dayId |-> ThisDay, segmentIndex |-> 0, segmentPlannedMinutes |-> m,
    status |-> st, startedAt |-> sa, accumulatedSeconds |-> a,
    lastUpdatedAt |-> CommitDelayMs, deviceId |-> 2]
     : m \in {1, 2}, st \in {"running", "paused", "stopped"},
       sa \in CalcStartedAt, a \in CalcAccumulated}

InitCalc ==
  /\ segments = ShortDay
  /\ now \in CalcTimes
  /\ clockOffset = [d \in Devices |-> 0]
  /\ dev = [d \in Devices |-> [InitDevice(segments) EXCEPT
                                  !.open = (d = 1), !.seedPending = FALSE,
                                  !.listener = IF d = 1 THEN "active" ELSE "none",
                                  !.delivered = (d # 1)]]
  /\ logStore = <<>>
  /\ dayCompleted = 0
  /\ remote \in {{r} : r \in CalcRecords}
  /\ pressed = FALSE

\* Lines 580-581 of the subscription callback on their own.
CalculateRemaining(d) ==
  /\ ~dev[d].delivered
  /\ \E r \in remote :
        dev' = [dev EXCEPT ![d].delivered = TRUE,
                  ![d].secondsRemaining =
                     calculateRemainingSeconds(r, r.segmentPlannedMinutes * SecondsPerMinute,
                                               Clock(d))]
  /\ UNCHANGED <<segments, now, clockOffset, logStore, dayCompleted, remote, pressed>>

NextCalc == CalculateRemaining(1)

SpecCalc == InitCalc /\ [][NextCalc]_vars

\* One device that may be reloaded; the dialog offers Resume and Restart.
InitReload == InitWith({1}, SegmentLists, FALSE)
NextReload ==
  \/ Start(1) \/ Resume(1) \/ Pause(1)
  \/ Reload(1) \/ HandleResume(1) \/ HandleRestart(1)
  \/ \E ok \in BOOLEAN : DayCheckDone(1, ok)
  \/ Tick(1)
  \/ ClockSecond(MaxTime, NetworkQuiet /\ SeedQuiet /\ LogQuiet)
  \/ LoadInitialData(1, TRUE)
  \/ \E k \in 1 .. MaxPending : LogWriteOk(1, k)
  \/ RemoteCommit(1) \/ FlagTimer(1) \/ OnSnapshot(1)

SpecReload == InitReload /\ [][NextReload]_vars

\* One device within one segment whose remote writes may stay in flight
\* for any time, so that a second write can be issued before the first has
\* completed.
InitOverlap == InitWith({1}, {ShortDay}, FALSE)
NextOverlap ==
  \/ Start(1) \/ Pause(1) \/ Resume(1)
  \/ Tick(1)
  \/ ClockSecond(MaxTime, SeedQuiet /\ LogQuiet)
  \/ LoadInitialData(1, TRUE)
  \/ \E k \in 1 .. MaxPending : LogWriteOk(1, k)
  \/ RemoteCommit(1) \/ FlagTimer(1) \/ OnSnapshot(1)

SpecOverlap == InitOverlap /\ [][NextOverlap]_vars

\* One device within one segment beside a peer: remote writes, their flag
\* timeouts and the pushes may be delayed for any time, so a record can
\* arrive after a later local write was issued.
InitFrame == InitWith({1}, {ShortDay}, FALSE)
NextFrame ==
  \/ Start(1) \/ Pause(1) \/ Resume(1)
  \/ Tick(1)
  \/ ClockSecond(MaxTime, SeedQuiet /\ LogQuiet)
  \/ LoadInitialData(1, TRUE)
  \/ \E k \in 1 .. MaxPending : LogWriteOk(1, k)
  \/ RemoteCommit(1) \/ FlagTimer(1) \/ OnSnapshot(1)
  \/ \E r \in PeerRecords : PeerWrite(r)

SpecFrame == InitFrame /\ [][NextFrame]_vars

\* One device on the three-segment day: the user may skip ahead and then
\* let the segment run out.
MaxTimeSkip == 102
InitSkip == InitWith({1}, {LongDay}, FALSE)
NextSkip ==
  \/ Start(1) \/ Resume(1) \/ Pause(1) \/ Skip(1)
  \/ Tick(1)
  \/ ClockSecond(MaxTimeSkip, NetworkQuiet /\ SeedQuiet /\ LogQuiet)
  \/ LoadInitialData(1, TRUE)
  \/ \E k \in 1 .. MaxPending : LogWriteOk(1, k)
  \/ RemoteCommit(1) \/ FlagTimer(1) \/ OnSnapshot(1)

SpecSkip == InitSkip /\ [][NextSkip]_vars

\* One device whose user works the controls, presses Reset at ResetAt and
\* then leaves the page alone.
ResetAt == 2 * ActionGrid
InitClear == InitWith({1}, SegmentLists, FALSE)
NextClear ==
  \/ now < ResetAt /\ Start(1)
  \/ now < ResetAt /\ Pause(1)
  \/ now < ResetAt /\ Skip(1)
  \/ now = ResetAt /\ Reset(1)
  \/ Tick(1)
  \/ (now = ResetAt => pressed)
       /\ ClockSecond(MaxTime, NetworkQuiet /\ SeedQuiet)
  \/ LoadInitialData(1, TRUE)
  \/ RemoteCommit(1) \/ FlagTimer(1) \/ OnSnapshot(1)

SpecClear == InitClear /\ [][NextClear]_vars

\* The day's view is opened on a device whose storage holds a snapshot left
\* by an earlier session: of this day or another, with an index that may
\* not fit the day's segment list.  A resume from a snapshot whose index is
\* not in the list is not followed further.
StoredIndices == {0 - 1, 0, 1, 3}
StoredSeconds == {30, 60}
StoredSnapshots ==
  {[dayId |-> day, segmentIndex |-> i, secondsRemaining |-> sr,
    isRunning |-> run, lastUpdatedAt |-> 0]
     : day \in {ThisDay, OtherDay}, i \in StoredIndices, sr \in StoredSeconds,
       run \in BOOLEAN}

InitMount ==
  /\ segments \in SegmentLists
  /\ now = 0
  /\ clockOffset = [d \in Devices |-> 0]
  /\ \E p \in StoredSnapshots :
        dev = [d \in Devices |-> [InitDevice(segments) EXCEPT
                                    !.open = FALSE, !.seedPending = FALSE,
                                    !.listener = "none",
                                    !.persisted = IF d = 1 THEN {p} ELSE {}]]
  /\ logStore = <<>>
  /\ dayCompleted = 0
  /\ remote = {}
  /\ pressed = FALSE

Resumable(d) == \A p \in dev[d].persistedState : p.segmentIndex \in Indices

NextMount ==
  \/ Open(1) \/ HandleRestart(1)
  \/ Resumable(1) /\ HandleResume(1)
  \/ \E ok \in BOOLEAN : DayCheckDone(1, ok)
  \/ Start(1) \/ Resume(1) \/ Pause(1)
  \/ Tick(1)
  \/ ClockSecond(MaxTime, NetworkQuiet /\ LogQuiet)
  \/ \E k \in 1 .. MaxPending : LogWriteOk(1, k)
  \/ RemoteCommit(1) \/ FlagTimer(1) \/ OnSnapshot(1)

SpecMount == InitMount /\ [][NextMount]_vars

\* One device whose wall clock may be set back while a segment runs.
InitAnomaly == InitWith({1}, SegmentLists, FALSE)
NextAnomaly ==
  \/ Start(1) \/ Pause(1) \/ Resume(1)
  \/ Tick(1)
  \/ ClockSecond(MaxTimeLog, NetworkQuiet /\ SeedQuiet /\ LogQuiet)
  \/ ClockSetBack(1)
  \/ LoadInitialData(1, TRUE)
  \/ \E k \in 1 .. MaxPending : LogWriteOk(1, k)
  \/ RemoteCommit(1) \/ FlagTimer(1) \/ OnSnapshot(1)

SpecAnomaly == InitAnomaly /\ [][NextAnomaly]_vars

\* One device whose subscription is still being set up and whose remote
\* operations may each succeed or fail.
ListenerSettled == \A d \in Devices : dev[d].listener # "pending"
InitFail ==
  /\ segments \in SegmentLists
  /\ now = 0
  /\ clockOffset = [d \in Devices |-> 0]
  /\ dev = [d \in Devices |-> [InitDevice(segments) EXCEPT
                                  !.open = (d = 1), !.seedPending = FALSE,
                                  !.listener = IF d = 1 THEN "pending" ELSE "none"]]
  /\ logStore = <<>>
  /\ dayCompleted = 0
  /\ remote = {}
  /\ pressed = FALSE
NextFail ==
  \/ Start(1) \/ Resume(1) \/ Pause(1) \/ Skip(1) \/ Reset(1)
  \/ Tick(1)
  \/ ClockSecond(MaxTime, NetworkQuiet /\ LogQuiet /\ ListenerSettled)
  \/ \E k \in 1 .. MaxPending : LogWriteOk(1, k)
  \/ ListenerReady(1) \/ ListenerFail(1)
  \/ RemoteCommit(1) \/ RemoteFail(1) \/ FlagTimer(1) \/ OnSnapshot(1)

SpecFail == InitFail /\ [][NextFail]_vars

\* One device whose view may be closed at any press, also before the
\* subscription's setup has completed.
InitClose == InitFail
NextClose ==
  \/ Start(1) \/ Resume(1) \/ Pause(1) \/ Close(1)
  \/ Tick(1)
  \/ ClockSecond(MaxTime, NetworkQuiet /\ LogQuiet /\ ListenerSettled)
  \/ \E k \in 1 .. MaxPending : LogWriteOk(1, k)
  \/ ListenerReady(1) \/ ListenerFail(1)
  \/ RemoteCommit(1) \/ FlagTimer(1) \/ OnSnapshot(1)

SpecClose == InitClose /\ [][NextClose]_vars

\* The day's segment list, empty at first, is generated from a daily
\* target; no device has the day open.
MaxTotalMinutes == 130
TotalMinutes == 1 .. MaxTotalMinutes
ClosedDevices(segs) ==
  [d \in Devices |-> [InitDevice(segs) EXCEPT
                        !.open = FALSE, !.seedPending = FALSE, !.listener = "none"]]
InitBuild ==
  /\ segments = <<>>
  /\ now = 0
  /\ clockOffset = [d \in Devices |-> 0]
  /\ dev = ClosedDevices(segments)
  /\ logStore = <<>>
  /\ dayCompleted = 0
  /\ remote = {}
  /\ pressed = FALSE

\* The plan is generated, or generated again, for a target of totalMinutes.
BuildDay(totalMinutes) ==
  /\ segments' = buildPomodoroSegmentsForDay(totalMinutes)
  /\ dev' = ClosedDevices(segments')
  /\ UNCHANGED <<now, clockOffset, logStore, dayCompleted, remote, pressed>>

NextBuild == \E m \in TotalMinutes : BuildDay(m)

SpecBuild == InitBuild /\ [][NextBuild]_vars

\* One device on the three-segment day whose user only ever presses Start
\* and Skip: a press made on a segment after the first is then a skip.
InitSkipWrite == InitWith({1}, {LongDay}, FALSE)
NextSkipWrite ==
  \/ Start(1) \/ Skip(1)
  \/ Tick(1)
  \/ ClockSecond(MaxTimeSkip, NetworkQuiet /\ SeedQuiet /\ LogQuiet)
  \/ LoadInitialData(1, TRUE)
  \/ \E k \in 1 .. MaxPending : LogWriteOk(1, k)
  \/ RemoteCommit(1) \/ FlagTimer(1) \/ OnSnapshot(1)

SpecSkipWrite == InitSkipWrite /\ [][NextSkipWrite]_vars

\* One device whose user presses controls only before QuietFrom; from then
\* on the interval, the log writes and the device's own remote writes are
\* all that happens.
QuietFrom == 3 * ActionGrid
MaxTimeQuiet == 222
InitQuiet == InitWith({1}, SegmentLists, FALSE)
NextQuiet ==
  \/ now < QuietFrom /\ Start(1)
  \/ now < QuietFrom /\ Resume(1)
  \/ now < QuietFrom /\ Pause(1)
  \/ now < QuietFrom /\ Skip(1)
  \/ Tick(1)
  \/ ClockSecond(MaxTimeQuiet, NetworkQuiet /\ SeedQuiet)
  \/ LoadInitialData(1, TRUE)
  \/ \E k \in 1 .. MaxPending : LogWriteOk(1, k)
  \/ RemoteCommit(1) \/ FlagTimer(1) \/ OnSnapshot(1)

SpecQuiet == InitQuiet /\ [][NextQuiet]_vars

\* Timers fire and the network answers.
SpecQuietLive == SpecQuiet /\ WF_vars(NextQuiet)

\* The day is opened on a device that holds no snapshot or any stored
\* one, while the day's log is empty or already holds every work segment.
FullLog(segs) ==
  SelectSeq([k \in 1 .. Len(segs) |->
               [segmentIndex |-> k - 1, plannedMinutes |-> segs[k].minutes,
                actualSeconds |-> IF segs[k].type = "work"
                                  THEN segs[k].minutes * SecondsPerMinute ELSE 0]],
            LAMBDA e : e.actualSeconds > 0)
InitLoad ==
  /\ segments \in SegmentLists
  /\ now = 0
  /\ clockOffset = [d \in Devices |-> 0]
  /\ \E ps \in {{}} \cup {{p} : p \in StoredSnapshots} :
        dev = [d \in Devices |-> [InitDevice(segments) EXCEPT
                                    !.open = FALSE, !.seedPending = FALSE,
                                    !.listener = "none",
                                    !.persisted = IF d = 1 THEN ps ELSE {}]]
  /\ logStore \in {<<>>, FullLog(segments)}
  /\ dayCompleted = 0
  /\ remote = {}
  /\ pressed = FALSE
NextLoad ==
  \/ Open(1) \/ HandleRestart(1)
  \/ Resumable(1) /\ HandleResume(1)
  \/ \E ok \in BOOLEAN : DayCheckDone(1, ok)
  \/ Start(1) \/ Resume(1) \/ Pause(1)
  \/ Tick(1)
  \/ ClockSecond(MaxTime, NetworkQuiet /\ LogQuiet)
  \/ \E k \in 1 .. MaxPending : LogWriteOk(1, k)
  \/ RemoteCommit(1) \/ FlagTimer(1) \/ OnSnapshot(1)

SpecLoad == InitLoad /\ [][NextLoad]_vars

\* The check returns, timers fire and the network answers.
SpecLoadLive == SpecLoad /\ WF_vars(NextLoad)

(***************************************************************************)
(* Properties                                                              *)
(***************************************************************************)

Opened == {d \in Devices : dev[d].open}

\* C1: in every reachable state the sequencer's secondsRemaining lies between
\* 0 and the planned duration of the current segment, also after a remote
\* record has been applied through the read path.
C1_SecondsRemainingInRange ==
  \A d \in Opened :
     /\ 0 <= dev[d].secondsRemaining
     /\ dev[d].secondsRemaining <= Seg(dev[d].currentIndex).minutes * SecondsPerMinute

\* Number of entries the durable log store holds for segment i.
Logged(i) == Cardinality({k \in 1 .. Len(logStore) : logStore[k].segmentIndex = i})

\* C2: the final work segment is logged at most once and day-completion is
\* triggered at most once, also when the completion handler runs a second
\* time for that index before the first durable write has returned.
C2_FinalSegmentLoggedOnce ==
  Logged(N - 1) <= 1 /\ dayCompleted <= 1

\* C3: with two devices open on the same user, plan and day, the durable log
\* store never holds more than one entry for the same segment index.
C3_OneEntryPerSegment ==
  \A i \in Indices : Logged(i) <= 1

\* C4: on a single device, a segment index the durable log store already
\* holds (from before the day was opened, or logged earlier in the session)
\* is never written to the store again.
C4_LoggedIndexNeverRewritten ==
  [][\A i \in Indices : Logged(i) >= 1 => Logged(i)' = Logged(i)]_vars

\* C5: a skip never invokes the completion callback and never issues or
\* lands a log write, running or paused, last segment or not.
C5_SkipNeverLogs ==
  [][\A d \in Opened :
       Skip(d) => /\ dev'[d].lastCompleted = {}
                  /\ dev'[d].pendingLogs = dev[d].pendingLogs
                  /\ logStore' = logStore]_vars

\* A running single-segment day that was skipped to its end.
C5_Witness ==
  /\ N = 1
  /\ dev[1].isFinished /\ 0 \in dev[1].completedSegments
  /\ dev[1].segmentStartTimes[0] # NoTime
  /\ dev[1].pendingLogs = <<>> /\ logStore = <<>> /\ ~dev[1].isLoggingError

\* C6: every log entry issued or stored for a naturally completed work
\* segment has 0 <= actualSeconds <= plannedMinutes * 60, whatever the
\* wall-clock time between the recorded start and the completion.
C6_ActualSecondsCapped ==
  /\ \A d \in Opened : \A k \in 1 .. Len(dev[d].pendingLogs) :
        /\ 0 <= dev[d].pendingLogs[k].actualSeconds
        /\ dev[d].pendingLogs[k].actualSeconds
             <= dev[d].pendingLogs[k].plannedMinutes * SecondsPerMinute
  /\ \A k \in 1 .. Len(logStore) :
        /\ 0 <= logStore[k].actualSeconds
        /\ logStore[k].actualSeconds <= logStore[k].plannedMinutes * SecondsPerMinute

\* A write whose wall-clock elapsed time exceeded the planned duration.
C6_Witness ==
  \E k \in 1 .. Len(dev[1].pendingLogs) :
     /\ dev[1].pendingLogs[k].elapsedSeconds
          > dev[1].pendingLogs[k].plannedMinutes * SecondsPerMinute
     /\ dev[1].pendingLogs[k].actualSeconds
          = dev[1].pendingLogs[k].plannedMinutes * SecondsPerMinute

\* C7: between resets, completedSegments never loses a member: every step
\* other than a reset keeps every index that was in it.
C7_CompletedNeverShrinks ==
  [][\A d \in Opened :
       Reset(d) \/ dev[d].completedSegments \subseteq dev'[d].completedSegments]_vars

\* C8: a finished sequencer is not running, and start and resume issued
\* while it is finished leave its state unchanged.
C8_FinishedNotRunning ==
  \A d \in Opened :
     dev[d].isFinished =>
        /\ ~dev[d].isRunning
        /\ start(dev[d], Clock(d)) = dev[d]
        /\ resume(dev[d]) = dev[d]

\* The last segment ran out and the sequencer finished.
C8_Witness ==
  /\ dev[1].isFinished
  /\ dev[1].completedSegments = Indices
  /\ dev[1].currentIndex = N - 1 /\ dev[1].secondsRemaining = 0

\* Arguments goToSegment is tried with: from below 0 to beyond the last index.
GoToArguments == (0 - N - 1) .. (N + 1)

\* C9: currentIndex is always an index of the segment list, also after the
\* last segment was skipped or ran out, after a remote record was applied,
\* and after goToSegment with any integer.
C9_CurrentIndexInRange ==
  \A d \in Opened :
     /\ dev[d].currentIndex \in Indices
     /\ \A k \in GoToArguments : goToSegment(dev[d], k).currentIndex \in Indices

\* The sequencer sits on the last segment after finishing it.
C9_Witness ==
  /\ N > 1
  /\ dev[1].isFinished /\ dev[1].currentIndex = N - 1
  /\ goToSegment(dev[1], N).currentIndex = N - 1
  /\ goToSegment(dev[1], 0).currentIndex = 0

WorkIndices == {i \in Indices : Seg(i).type = "work"}

\* The run is over: finished, and every durable write has returned.
RunDone == dev[1].isFinished /\ dev[1].pendingLogs = <<>>

\* Exactly one log entry per work segment, none for a break, no snapshot.
RunLedger ==
  /\ \A i \in Indices : Logged(i) = IF i \in WorkIndices THEN 1 ELSE 0
  /\ dev[1].persisted = {}

\* C10: when the user starts at segment 0 and only ticks follow, with every
\* log write succeeding, the run ends finished, with exactly one log entry
\* per work segment, none for any break, and no persisted snapshot.
C10_NaturalRun ==
  /\ [](RunDone => RunLedger)
  /\ (dev[1].isRunning /\ now = 0) ~> (RunDone /\ RunLedger)

\* The three-segment day ran to its end and both work segments are stored.
C10_Witness ==
  N = 3 /\ RunDone /\ Len(logStore) = 2 /\ dev[1].persisted = {}

\* C11: with synchronized clocks, whenever device 2 applies the latest
\* record device 1 wrote after a start, pause or resume within one segment,
\* the remaining seconds device 2 computes equal device 1's secondsRemaining.
C11_FollowerAgrees ==
  \A r \in remote :
     (/\ r.deviceId = 1 /\ dev[1].outbox = <<>> /\ TicksDone
      /\ ~dev[1].isFinished /\ ~Discards(dev[2], r))
     => calculateRemainingSeconds(r, r.segmentPlannedMinutes * SecondsPerMinute, Clock(2))
          = dev[1].secondsRemaining

C13_EffectiveRemaining ==
  [][\A d \in Opened : \A p \in dev[d].persisted :
       HandleResume(d) =>
          dev'[d].secondsRemaining =
             IF p.isRunning
             THEN Max(0, p.secondsRemaining - (Clock(d) - p.lastUpdatedAt))
             ELSE p.secondsRemaining]_vars

\* Resume chosen some time after a running snapshot was written, with time left.
C13_Witness ==
  \E p \in dev[1].persisted :
     /\ dev[1].resumeDecision = "resume" /\ p.isRunning
     /\ 0 < dev[1].secondsRemaining /\ dev[1].secondsRemaining < p.secondsRemaining
     /\ ~dev[1].isRunning

\* C14: a device never applies to its own sequencer a pushed record that
\* results from its own earlier write, whatever the delay of the push.
C14_EchoIgnored ==
  [][\A d \in Opened : \A r \in remote :
       (OnSnapshot(d) /\ r.deviceId = d) => Discards(dev[d], r)]_vars

\* The sequencer's state and the sync bookkeeping of a device.
Sequencer(s) ==
  <<s.currentIndex, s.secondsRemaining, s.isRunning, s.isFinished, s.completedSegments>>
Bookkeeping(s) == <<s.segmentStartTimeRef, s.accumulatedSecondsRef>>

\* A remote write issued by device d has not completed yet.
WriteInFlight(d) ==
  \E k \in 1 .. Len(dev[d].outbox) : dev[d].outbox[k].op = "set"

\* C15: a pushed record that arrives while a local remote write is still in
\* flight leaves the sequencer unchanged, also when two local writes overlap.
C15_DiscardedWhileInFlight ==
  [][\A d \in Opened :
       (OnSnapshot(d) /\ WriteInFlight(d)) =>
          Sequencer(dev'[d]) = Sequencer(dev[d])]_vars

\* C16: a record whose day differs from the device's, or whose lastUpdatedAt
\* is not after the device's last local write time, leaves every sequencer
\* field and the sync bookkeeping (start instant, accumulated seconds) as
\* they were.
C16_DiscardedLeavesState ==
  [][\A d \in Opened : \A r \in remote :
        (OnSnapshot(d) /\ (r.dayId # ThisDay
                            \/ r.lastUpdatedAt <= dev[d].lastRemoteUpdateRef))
        => /\ Sequencer(dev'[d]) = Sequencer(dev[d])
           /\ Bookkeeping(dev'[d]) = Bookkeeping(dev[d])]_vars

\* A record older than the last local write has been pushed with no flag
\* raised, and the paused device did not follow it.
C16_Witness ==
  \E r \in remote :
     /\ dev[1].delivered /\ ~dev[1].isSyncingToFirestoreRef /\ dev[1].flagTimers = 0
     /\ r.dayId = ThisDay /\ r.lastUpdatedAt <= dev[1].lastRemoteUpdateRef
     /\ r.status = "running" /\ ~dev[1].isRunning /\ ~dev[1].isFinished
     /\ dev[1].secondsRemaining > 0

\* The upserts device d has issued and not yet completed.
Writes(d) ==
  {dev[d].outbox[k] : k \in {j \in 1 .. Len(dev[d].outbox) : dev[d].outbox[j].op = "set"}}

\* C17: every remote record written by a control action or by an index
\* transition, queued or stored, has a start instant exactly when its status
\* is running.
C17_StartedAtIffRunning ==
  /\ \A d \in Opened : \A w \in Writes(d) :
        (w.startedAt # NoTime) <=> (w.status = "running")
  /\ \A r \in remote : r.deviceId \in Opened =>
        ((r.startedAt # NoTime) <=> (r.status = "running"))

\* The stored record is the paused one a Pause wrote after the segment had
\* run for a while.
C17_Witness ==
  \E r \in remote :
     /\ r.deviceId = 1 /\ r.status = "paused" /\ r.accumulatedSeconds > 0
     /\ r.startedAt = NoTime

\* C18: when a device's write replaces the record of its previous write and
\* neither has status running, accumulatedSeconds has not decreased.
C18_AccumulatedNeverDecreases ==
  [][\A d \in Opened : \A r \in remote : \A w \in remote' :
        (RemoteCommit(d) /\ r.deviceId = d /\ w.deviceId = d
         /\ r.status # "running" /\ w.status # "running")
        => w.accumulatedSeconds >= r.accumulatedSeconds]_vars

\* C19: a tick after which currentIndex is what it was adds no upsert of the
\* remote record to those the device has issued.
C19_TickWritesNothing ==
  [][\A d \in Opened :
        (Tick(d) /\ dev'[d].currentIndex = dev[d].currentIndex)
        => Writes(d)' = Writes(d)]_vars

\* The user has pressed Reset and no control since.
AfterReset == now > ResetAt \/ (now = ResetAt /\ pressed)

\* C20: once the session has finished or the user has reset, and every
\* upsert and delete the device issued has completed, no remote record
\* exists.
C20_NoRecordAfterClear ==
  \A d \in Opened :
     ((dev[d].isFinished \/ AfterReset) /\ dev[d].outbox = <<>>) => remote = {}

\* The number of upserts device d has issued and not yet completed.
Upserts(s) == Cardinality({k \in 1 .. Len(s.outbox) : s.outbox[k].op = "set"})

\* C21: a step that leaves the sequencer finished, whether it found it
\* finished or made it so (a skip of the last segment, the tick that
\* completes it), issues no upsert of the remote record.
C21_NoUpsertWhenFinished ==
  [][\A d \in Opened :
        dev'[d].isFinished => Upserts(dev'[d]) <= Upserts(dev[d])]_vars

\* The persisted snapshot of s exists and mirrors the sequencer.
Mirrored(s) ==
  /\ s.persisted # {}
  /\ \A p \in s.persisted :
        /\ p.segmentIndex = s.currentIndex
        /\ p.secondsRemaining = s.secondsRemaining
        /\ p.isRunning = s.isRunning

\* C22: a step that changes the sequencer and leaves it unfinished leaves a
\* persisted snapshot whose segmentIndex, secondsRemaining and isRunning
\* are the sequencer's; after any step that leaves it finished there is no
\* persisted snapshot.
C22_SnapshotMirrorsSequencer ==
  [][\A d \in Opened :
        /\ dev'[d].isFinished => dev'[d].persisted = {}
        /\ (Sequencer(dev'[d]) # Sequencer(dev[d]) /\ ~dev'[d].isFinished)
           => Mirrored(dev'[d])]_vars

\* A running segment is part-way through and the snapshot says so.
C22_Witness ==
  /\ dev[1].isRunning /\ dev[1].secondsRemaining > 0
  /\ dev[1].secondsRemaining < PlannedSeconds(dev[1].currentIndex)
  /\ Mirrored(dev[1])

\* C23: when the day is opened with a stored snapshot of another day, or one
\* whose segment index is negative or too large for the day, the snapshot
\* is deleted and the sequencer starts at segment 0 with the full duration,
\* not running, and the Resume/Restart dialog is not shown.
C23_UnusableSnapshotDiscarded ==
  [][\A d \in Devices : \A p \in dev[d].persisted :
        (Open(d) /\ (p.dayId # ThisDay \/ p.segmentIndex \notin Indices))
        => /\ dev'[d].persisted = {}
           /\ dev'[d].resumeDecision # "pending"
           /\ dev'[d].currentIndex = 0
           /\ dev'[d].secondsRemaining = PlannedSeconds(0)
           /\ ~dev'[d].isRunning]_vars

\* Resume was chosen in the dialog and the timer's controls have not been
\* used since: the mounted timer has issued no write of its own.
ResumedUntouched(s) == s.resumeDecision = "resume" /\ s.lastRemoteUpdateRef = 0

\* C24: Resume hydrates the sequencer at the snapshot's index with the
\* effective remaining seconds, not running, and until the user presses
\* Start or Resume on the timer it stays not running, secondsRemaining does
\* not decrease and no completion is logged; Restart deletes the snapshot
\* and starts at segment 0 with the full duration, not running.
C24_ResumePausedRestartFresh ==
  [][\A d \in Opened :
        /\ HandleResume(d) =>
              \A p \in dev[d].persistedState :
                 /\ dev'[d].currentIndex = p.segmentIndex
                 /\ dev'[d].secondsRemaining
                      = calculateEffectiveSecondsRemaining(p, Clock(d))
                 /\ ~dev'[d].isRunning
        /\ (ResumedUntouched(dev[d]) /\ dev'[d].resumeDecision = "resume"
             /\ ~Start(d) /\ ~Resume(d))
           => /\ ~dev'[d].isRunning
              /\ dev'[d].secondsRemaining >= dev[d].secondsRemaining
              /\ Len(dev'[d].pendingLogs) <= Len(dev[d].pendingLogs)
        /\ HandleRestart(d) =>
              /\ dev'[d].persisted = {}
              /\ dev'[d].currentIndex = 0
              /\ dev'[d].secondsRemaining = PlannedSeconds(0)
              /\ ~dev'[d].isRunning]_vars

\* The step completes work segment i on device d with an actualSeconds
\* outside 0 .. plannedMinutes * AnomalyFactor.
Anomalous(d, i) ==
  /\ i \in dev'[d].lastCompleted /\ Seg(i).type = "work"
  /\ i \notin dev[d].loggedSegmentIndices
  /\ dev[d].segmentStartTimes[i] # NoTime
  /\ LET actualSeconds == Min(Clock(d) - dev[d].segmentStartTimes[i], PlannedSeconds(i))
     IN  actualSeconds < 0 \/ actualSeconds > Seg(i).minutes * AnomalyFactor

\* C25: when a work segment completes with an actualSeconds outside
\* 0 .. plannedMinutes * 120, no durable write is issued, the segment is not
\* marked as logged, the logging error is raised, and the sequencer moves
\* on as after any completion: to the next segment running, or finished.
C25_AnomalySkipsWrite ==
  [][\A d \in Opened : \A i \in Indices :
        Anomalous(d, i)
        => /\ dev'[d].pendingLogs = dev[d].pendingLogs
           /\ dev'[d].loggedSegmentIndices = dev[d].loggedSegmentIndices
           /\ dev'[d].isLoggingError
           /\ i \in dev'[d].completedSegments
           /\ IF i < N - 1
              THEN /\ dev'[d].currentIndex = i + 1 /\ dev'[d].isRunning
                   /\ dev'[d].secondsRemaining = PlannedSeconds(i + 1)
              ELSE dev'[d].isFinished /\ ~dev'[d].isRunning]_vars

\* The clock was set back, segment 0 completed without a log entry and with
\* the error raised, and the break that follows has run to its end too.
C25_Witness ==
  /\ clockOffset[1] < 0 /\ dev[1].isLoggingError
  /\ 0 \in dev[1].completedSegments /\ 0 \notin dev[1].loggedSegmentIndices
  /\ logStore = <<>> /\ dev[1].pendingLogs = <<>>
  /\ dev[1].currentIndex = 2 /\ dev[1].isRunning

\* The segment indices that have an entry in the durable log store.
StoredIndexSet(store) == {store[k].segmentIndex : k \in 1 .. Len(store)}

\* C26: when the durable write for a completed work segment fails, the
\* ledger, the log store, the day-completion count and the sequencer are
\* unchanged and the logging error is raised; and whatever step adds an
\* index to the ledger, the store then holds an entry for that index.
C26_FailedWriteNotLedgered ==
  [][\A d \in Opened :
        /\ \A k \in 1 .. MaxPending :
              LogWriteFail(d, k)
              => /\ dev'[d].loggedSegmentIndices = dev[d].loggedSegmentIndices
                 /\ logStore' = logStore
                 /\ dayCompleted' = dayCompleted
                 /\ dev'[d].isLoggingError
                 /\ Sequencer(dev'[d]) = Sequencer(dev[d])
        /\ (dev'[d].loggedSegmentIndices \ dev[d].loggedSegmentIndices)
              \subseteq StoredIndexSet(logStore')]_vars

\* The write for segment 0 failed: the segment is completed, not in the
\* ledger and not in the store, and the error is raised.
C26_Witness ==
  /\ dev[1].isLoggingError /\ dev[1].pendingLogs = <<>>
  /\ 0 \in dev[1].completedSegments /\ 0 \notin dev[1].loggedSegmentIndices
  /\ logStore = <<>> /\ dayCompleted = 0

\* C27: when the write for the day's final work segment has succeeded,
\* whatever markDayCompleted, isLastTrainingDay and completePlan then do,
\* no logging error is shown, the log entry is in the store and the index
\* is in the ledger; completePlan is called exactly when markDayCompleted
\* succeeded and isLastTrainingDay returned true.
C27_SecondaryFailureSwallowed ==
  [][\A d \in Opened : \A k \in 1 .. MaxPending :
       \A dayOk, lastDay, planOk \in BOOLEAN :
        (LogWritten(d, k, dayOk, lastDay, planOk) /\ dev[d].pendingLogs[k].isLastSegment)
        => LET w == dev[d].pendingLogs[k]
           IN  /\ ~dev'[d].isLoggingError
               /\ w.segmentIndex \in StoredIndexSet(logStore')
               /\ w.segmentIndex \in dev'[d].loggedSegmentIndices
               /\ (dev'[d].completePlanCalls > dev[d].completePlanCalls)
                    <=> (dayOk /\ lastDay)]_vars

\* The final segment is logged and in the ledger, markDayCompleted was
\* called and threw, completePlan was not called, and no error is shown.
C27_Witness ==
  /\ dev[1].dayCompletionError /\ dev[1].completePlanCalls = 0
  /\ dayCompleted = 1 /\ ~dev[1].isLoggingError
  /\ (N - 1) \in dev[1].loggedSegmentIndices
  /\ (N - 1) \in StoredIndexSet(logStore)

\* C28: a failed remote write or delete and a failed subscription leave the
\* sequencer and the error banner as they were, and whatever became of the
\* remote operations every control action and every tick yields the
\* sequencer state the hook alone computes from the state it acts on.
C28_RemoteFailureTransparent ==
  [][\A d \in Opened :
        /\ (RemoteFail(d) \/ ListenerFail(d))
              => /\ Sequencer(dev'[d]) = Sequencer(dev[d])
                 /\ dev'[d].isLoggingError = dev[d].isLoggingError
        /\ LET t == Clock(d)
               plain(s) == Sequencer(completionEffect(s, t))
           IN  /\ Start(d)  => Sequencer(dev'[d]) = plain(start(dev[d], t))
               /\ Resume(d) => Sequencer(dev'[d]) = plain(resume(dev[d]))
               /\ Pause(d)  => Sequencer(dev'[d]) = plain(pause(dev[d]))
               /\ Skip(d)   => Sequencer(dev'[d]) = plain(skipSegment(dev[d], t))
               /\ Reset(d)  => Sequencer(dev'[d]) = plain(reset(dev[d]))
               /\ Tick(d)   => Sequencer(dev'[d]) = plain(tick(dev[d]))]_vars

\* The subscription failed and so did the writes of the start and of the
\* pause: the device is paused partway through segment 0 and the store
\* holds nothing.
C28_Witness ==
  /\ dev[1].listener = "none" /\ remote = {}
  /\ dev[1].outbox = <<>> /\ dev[1].flagTimers = 0
  /\ ~dev[1].isRunning /\ dev[1].currentIndex = 0
  /\ dev[1].secondsRemaining < PlannedSeconds(0)
  /\ ~dev[1].isLoggingError

\* C29: the subscription callback is invoked only on a device whose day
\* view is open: once the view is closed and the unsubscribe function has
\* been called, no invocation follows, whether or not the listener setup
\* had completed by then.
C29_NoCallbackAfterUnsubscribe ==
  [][\A d \in Devices : OnSnapshot(d) => dev[d].open]_vars

\* C30: for every positive daily target the work segments that
\* buildPomodoroSegmentsForDay returns add up to exactly that target.
C30_WorkSumsToTotal ==
  [][\A m \in TotalMinutes : BuildDay(m) => WorkMinutes(segments') = m]_vars

\* A 52-minute day: three work segments of 18, 17 and 17 minutes with two
\* breaks between them.
C30_Witness ==
  /\ Len(segments) = 5 /\ WorkMinutes(segments) = 52
  /\ segments[1].minutes = 18 /\ segments[5].minutes = 17

\* C31: a target of 20 minutes or more yields ceil(target / 25) work
\* segments, each of floor(target / N) or one more minute and none over 25,
\* the longer ones first, with one 5-minute break between consecutive work
\* segments and none after the last; a shorter target yields a single
\* work segment and no break.
C31_SegmentLayout ==
  [][\A m \in TotalMinutes :
       BuildDay(m)
       => LET segs == segments'
              n == Ceil(m, MAX_SEGMENT_MIN)
              base == m \div n
              odd == {k \in 1 .. Len(segs) : k % 2 = 1}
          IN  IF m < 20 THEN segs = <<Work(m)>>
              ELSE /\ Len(segs) = 2 * n - 1
                   /\ \A k \in 1 .. Len(segs) :
                         IF k \in odd
                         THEN /\ segs[k].type = "work"
                              /\ segs[k].minutes \in {base, base + 1}
                              /\ segs[k].minutes <= MAX_SEGMENT_MIN
                         ELSE segs[k] = Break(BREAK_MIN)
                   /\ \A j, k \in odd :
                         j < k => segs[j].minutes >= segs[k].minutes]_vars

\* A 104-minute day: work segments of 21, 21, 21, 21 and 20 minutes with
\* four breaks between them.
C31_Witness ==
  /\ Len(segments) = 9 /\ WorkMinutes(segments) = 104
  /\ segments[7].minutes = 21 /\ segments[9].minutes = 20
  /\ segments[8] = Break(BREAK_MIN)

C33_SkipAdvancesKeepingRunState ==
  [][\A d \in Opened :
       /\ dev[d].isFinished => skipSegment(dev[d], Clock(d)) = dev[d]
       /\ Skip(d)
           => IF dev[d].currentIndex < N - 1
              THEN /\ dev'[d].completedSegments
                        = dev[d].completedSegments \cup {dev[d].currentIndex}
                   /\ dev'[d].currentIndex = dev[d].currentIndex + 1
                   /\ dev'[d].secondsRemaining = PlannedSeconds(dev[d].currentIndex + 1)
                   /\ dev'[d].isRunning = dev[d].isRunning
                   /\ ~dev'[d].isFinished
              ELSE dev'[d].isFinished /\ ~dev'[d].isRunning]_vars

\* The first work segment was started, paused and then skipped: the break
\* is current at its full duration and still paused, and nothing was logged.
C33_Witness ==
  /\ N = 3 /\ pressed /\ now = 2 * ActionGrid
  /\ dev[1].currentIndex = 1 /\ ~dev[1].isRunning
  /\ dev[1].secondsRemaining = PlannedSeconds(1)
  /\ dev[1].completedSegments = {0}
  /\ dev[1].loggedSegmentIndices = {} /\ logStore = <<>>

\* The sequencer as reset leaves it.
Fresh(s) ==
  /\ s.currentIndex = 0 /\ s.secondsRemaining = PlannedSeconds(0)
  /\ ~s.isRunning /\ ~s.isFinished /\ s.completedSegments = {}

\* C34: reset, pressed while running, paused or finished, leaves the
\* sequencer on segment 0 at its full duration, not running, not finished
\* and with nothing completed; and while no control is pressed after the
\* reset the interval never fires.
C34_ResetRestoresInitial ==
  [][/\ Reset(1) => Fresh(dev'[1])
     /\ AfterReset => ~Tick(1)]_vars

\* Segment 0 was started, Reset was pressed and time has passed since.
C34_Witness ==
  /\ now > ResetAt /\ Fresh(dev[1])
  /\ dev[1].segmentStartTimes[0] # NoTime
  /\ dev[1].outbox = <<>>

\* C35: pause sets isRunning to false and leaves the index, the seconds
\* remaining, isFinished and the completed segments as they were; and
\* while isRunning is false the interval does not fire, so nothing is
\* decremented, advanced or reported as completed by a tick.
C35_PauseFreezes ==
  [][\A d \in Opened :
       /\ Pause(d)
           => /\ ~dev'[d].isRunning
              /\ dev'[d].currentIndex = dev[d].currentIndex
              /\ dev'[d].secondsRemaining = dev[d].secondsRemaining
              /\ dev'[d].isFinished = dev[d].isFinished
              /\ dev'[d].completedSegments = dev[d].completedSegments
              /\ dev'[d].lastCompleted = {}
       /\ ~dev[d].isRunning => ~Tick(d)]_vars

\* Segment 0 was paused after ActionGrid seconds and the clock has gone
\* on for as long again: the seconds remaining are those of the pause.
C35_Witness ==
  /\ now = 2 * ActionGrid /\ ~pressed
  /\ ~dev[1].isRunning /\ ~dev[1].isFinished
  /\ dev[1].currentIndex = 0
  /\ dev[1].secondsRemaining = PlannedSeconds(0) - ActionGrid
  /\ dev[1].completedSegments = {}

\* C36: whatever controls were pressed before, when a work segment that is
\* not in the ledger reaches 0 by ticking, the durable write of a log entry
\* for that segment index is issued.
C36_CompletedWorkIsLogged ==
  [][\A d \in Opened :
       (/\ Tick(d) /\ dev[d].secondsRemaining = 1
        /\ Seg(dev[d].currentIndex).type = "work"
        /\ dev[d].currentIndex \notin dev[d].loggedSegmentIndices)
       => \E k \in 1 .. Len(dev'[d].pendingLogs) :
             dev'[d].pendingLogs[k].segmentIndex = dev[d].currentIndex]_vars

\* C37: in the second of a skip that left the session unfinished, once no
\* write, timeout or push is outstanding, the remote record exists, carries
\* the device's current index and has status running exactly when the
\* device is running.
C37_SkipRecordMatches ==
  \A d \in Opened :
     (/\ pressed /\ dev[d].currentIndex > 0 /\ ~dev[d].isFinished
      /\ NetworkQuiet)
     => /\ remote # {}
        /\ \A r \in remote :
              /\ r.segmentIndex = dev[d].currentIndex
              /\ (r.status = "running") <=> dev[d].isRunning

\* C38: a push from the subscription, whether it is discarded or applied to
\* the sequencer and whether or not it changes the index, makes the
\* receiving device queue no write of the remote record.
C38_ApplyingRemoteWritesNothing ==
  [][\A d \in Opened :
       OnSnapshot(d) => Len(dev'[d].outbox) <= Len(dev[d].outbox)]_vars

\* C39: a sequencer that is running and not finished when the last control
\* has been pressed reaches isFinished by ticks alone, and from then on the
\* index never goes back and never skips a segment.
C39_RunsToTheEnd ==
  /\ (now = QuietFrom /\ dev[1].isRunning /\ ~dev[1].isFinished) ~> dev[1].isFinished
  /\ [][now >= QuietFrom
          => dev'[1].currentIndex \in {dev[1].currentIndex, dev[1].currentIndex + 1}]_vars

\* The three-segment day, started after a pause or late, has run through
\* all its segments after the last press.
C39_Witness ==
  /\ N = 3 /\ dev[1].isFinished /\ dev[1].completedSegments = {0, 1, 2}
  /\ now > QuietFrom + 2 * SecondsPerMinute

\* C40: an opened day does not stay on the 'Loading timer...' placeholder:
\* again and again the device shows the Resume/Restart dialog or the
\* timer, whatever snapshot it held and whatever the already-complete
\* check returned.
C40_NeverLoadingForever ==
  []<>(~dev[1].open \/ Screen(dev[1]) # "loading")
====
